---- MODULE Spec2Model ----
(***************************************************************************)
(* The greenlet/asyncio bridge of lib/sqlalchemy/util/_concurrency_py3k.py *)
(* as a state machine: one thread, its event loop, the stack of            *)
(* greenlet_spawn() coroutine frames of the task that runs, and the worker *)
(* greenlet (_AsyncIoGreenlet) of each frame.                              *)
(*                                                                         *)
(* The callable fn handed to greenlet_spawn is drawn from the family       *)
(*     fn(arg) = arg + await_x(a1) + ... + await_x(ak)                     *)
(* (the spec's "1 + await_only(resolveLater(2))"): at every point where fn *)
(* runs it may call an await adapter, return its accumulator, raise an     *)
(* error of its own, and, when an error was thrown into it, handle it or   *)
(* let it propagate.                                                       *)
(***************************************************************************)
EXTENDS Integers, Sequences, FiniteSets, TLC

VARIABLES
    loop_running,   \* an asyncio event loop is running in this thread
    active,         \* the task whose code holds the thread, "none" when none does
    current,        \* getcurrent(): 0 = the root greenlet, i > 0 = worker of frame i
    frames,         \* per task: the stack of greenlet_spawn frames, innermost last
    call,           \* observation: the adapter call made outside a worker by the last step
    done,           \* observation: the greenlet_spawn frame that exited in the last step
    last,           \* observation: the operation of the last step and getcurrent() before it
    task_context,   \* the value of a ContextVar in the Context object the task runs in
    mutex,          \* the asyncio.Lock of an AsyncAdaptedLock
    plain_in,       \* code outside any worker is inside the lock's with block
    ready           \* the tasks the event loop has yet to start

\* What the bridge itself never writes.
env == <<task_context, mutex, plain_in, ready>>

vars == <<loop_running, active, current, frames, call, done, last, env>>

\* ---------------------------------------------------------------- bounds
MaxDepth == 2       \* nesting depth of greenlet_spawn calls
MaxAwaits == 2      \* suspensions made under one top-level greenlet_spawn
MaxValue == 2       \* awaitables resolve to 1..MaxValue

\* fn's argument: the 1 of "1 + await_only(...)".
Args == {1}

Tasks == {"A"}

\* ---------------------------------------------------------------- errors
\* Errors are named by their class: an ordinary Exception ("ValueError"),
\* asyncio.TimeoutError, asyncio.CancelledError, a BaseException that is no
\* Exception ("KeyboardInterrupt"), and the bridge's own exc.MissingGreenlet
\* and exc.AwaitRequired.
\* isinstance(e, Exception): CancelledError and KeyboardInterrupt derive from
\* BaseException only.
IsException(e) == e \in {"ValueError", "TimeoutError", "MissingGreenlet", "AwaitRequired"}

\* Faulty variant: only the isinstance(e, Exception) test.
is_exit_exception_no_timeout(e) == ~IsException(e)

\* Faulty variant: only the two asyncio classes are looked for.
is_exit_exception_only_listed(e) == e \in {"TimeoutError", "CancelledError"}

is_exit_exception(e) ==
    ~IsException(e) \/ e \in {"TimeoutError", "CancelledError"}

\* ---------------------------------------------------------------- values
Val(v) == [tag |-> "val", v |-> v, e |-> "-"]
Err(e) == [tag |-> "err", v |-> 0, e |-> e]
NoOutcome == [tag |-> "none", v |-> 0, e |-> "-"]

\* What awaited operations fail with of themselves (cancellation comes from
\* the event loop), and what fn raises of itself.
AwaitErrors == {"TimeoutError"}
FnErrors == {"ValueError", "KeyboardInterrupt"}

Plans == {Val(v) : v \in 1..MaxValue} \cup {Err(e) : e \in AwaitErrors}

\* An awaitable: a coroutine object or a future/task ("kind"); what awaiting
\* it does ("body": it resolves as planned, or it is a greenlet_spawn(fn, arg,
\* _require_await=req) coroutine); its state and, once finished, its result.
SimpleAwaitable(k, p) ==
    [kind |-> k, body |-> "simple", plan |-> p, req |-> FALSE, arg |-> 0,
     st |-> "pending", res |-> NoOutcome]

SpawnCoroutine(a, r) ==
    [kind |-> "coroutine", body |-> "spawn", plan |-> NoOutcome, req |-> r, arg |-> a,
     st |-> "pending", res |-> NoOutcome]

NoAwaitable ==
    [kind |-> "-", body |-> "-", plan |-> NoOutcome, req |-> FALSE, arg |-> 0,
     st |-> "-", res |-> NoOutcome]

iscoroutine(aw) == aw.kind = "coroutine"

SimpleAwaitables == {SimpleAwaitable(k, p) : k \in {"coroutine", "future"}, p \in Plans}
SpawnCoroutines == {SpawnCoroutine(a, r) : a \in Args, r \in BOOLEAN}

\* What a worker hands to an adapter. The loop awaits whatever it is given
\* without looking at its kind, so workers yield coroutines.
WorkerAwaitables == {aw \in SimpleAwaitables : iscoroutine(aw)} \cup SpawnCoroutines

\* Faulty variant: the awaitable is never closed.
_safe_cancel_awaitable_noop(aw) == aw

_safe_cancel_awaitable(aw) ==
    IF iscoroutine(aw) THEN [aw EXCEPT !.st = "closed"] ELSE aw

\* The value handed over by a control transfer into the driver: the awaitable
\* the worker yields, or fn's return value.
HandAw(aw) == [tag |-> "aw", v |-> 0, aw |-> aw]
HandVal(v) == [tag |-> "val", v |-> v, aw |-> NoAwaitable]
NoHandoff == [tag |-> "none", v |-> 0, aw |-> NoAwaitable]

\* ---------------------------------------------------------------- observations
NoCall == [fn |-> "-", running |-> FALSE, before |-> NoAwaitable, after |-> NoAwaitable,
           out |-> NoOutcome]
Op(op) == [op |-> op, cur |-> current]

\* ---------------------------------------------------------------- the worker
getcurrent == IF current = 0 THEN "root" ELSE "worker"

\* Faulty variant: isinstance(getcurrent(), greenlet), true of the root too.
in_greenlet_any_greenlet == getcurrent \in {"root", "worker"}

\* isinstance(getcurrent(), _AsyncIoGreenlet)
in_greenlet == getcurrent = "worker"

\* The values of the ContextVar.
ContextValues == {"v0", "v1"}

\* hasattr(getcurrent(), "gr_context"): true of greenlet 1.0 and later.
_has_gr_context == TRUE

\* Faulty variant: the worker gets a copy of the driver's Context.
gr_context_copy(driver) == "copy"

\* "if _has_gr_context: self.gr_context = driver.gr_context": the worker's
\* context is the very Context object the driver runs in, the task's. Without
\* the attribute greenlets do not switch contexts at all.
gr_context(driver) == IF _has_gr_context THEN "driver's" ELSE "thread's"

\* What ContextVar.get() gives in a worker: the value in the Context object
\* its gr_context names; a copy holds what was copied.
contextvar_get(ctx) == IF ctx.gr_context = "copy" THEN ctx.snap ELSE task_context

\* asyncio.Lock(): unlocked, nobody waiting. A waiter is the task whose
\* acquire() waits and whether release() has woken it.
NewLock == [locked |-> FALSE, waiters |-> <<>>]

\* _AsyncIoGreenlet(fn, driver) for fn of the family above, called with arg.
\* "snap" keeps the ContextVar's value at creation, "seen" what fn last read,
\* "yields" counts fn's suspending adapter calls, "lock" is fn's position
\* around an AsyncAdaptedLock.
AsyncIoGreenlet(arg, driver) ==
    [st |-> "created", driver |-> driver, acc |-> arg, log |-> <<>>,
     exc |-> "-", ret |-> NoOutcome, how |-> "-",
     gr_context |-> gr_context(driver), snap |-> task_context, seen |-> "-",
     yields |-> 0, lock |-> "out"]

NoContext ==
    [st |-> "created", driver |-> "-", acc |-> 0, log |-> <<>>,
     exc |-> "-", ret |-> NoOutcome, how |-> "-",
     gr_context |-> "-", snap |-> "-", seen |-> "-", yields |-> 0, lock |-> "out"]

\* A greenlet_spawn frame after "context = _AsyncIoGreenlet(fn, getcurrent())",
\* "switch_occurred = False" and the first "context.switch(*args)".
NewFrame(arg, req) ==
    [arg |-> arg, require_await |-> req, switch_occurred |-> FALSE, pc |-> "in_worker",
     result |-> NoHandoff, value |-> NoOutcome, exc |-> "-", n_await |-> 0,
     n_into |-> 1,
     context |-> LET ctx == AsyncIoGreenlet(arg, getcurrent)
                 IN  [ctx EXCEPT !.st = "running", !.seen = contextvar_get(ctx)]]

\* Of the frame that exited: its flags, its worker, and what it completed with.
Exited(f, d, ctx, o, by) ==
    [valid |-> TRUE, depth |-> d, require_await |-> f.require_await,
     switch_occurred |-> f.switch_occurred, n_await |-> f.n_await,
     n_into |-> f.n_into, context |-> ctx,
     out |-> o, by |-> by]

NoDone ==
    [valid |-> FALSE, depth |-> 0, require_await |-> FALSE, switch_occurred |-> FALSE,
     n_await |-> 0, n_into |-> 0, context |-> NoContext, out |-> NoOutcome, by |-> "-"]

F == frames[active]
Depth == Len(F)
Top == F[Depth]
SetTop(f) == [frames EXCEPT ![active] = [F EXCEPT ![Depth] = f]]

WorkerRuns ==
    /\ active # "none"
    /\ Depth > 0
    /\ current = Depth
    /\ Top.context.st = "running"

DriverRuns ==
    /\ active # "none"
    /\ Depth > 0
    /\ current = 0

\* Code of the root greenlet that is not inside greenlet_spawn: plain
\* synchronous code when no loop runs, or the body of the task's coroutine.
PlainCode ==
    /\ current = 0
    /\ \/ active = "none" /\ ~loop_running
       \/ active # "none" /\ Depth = 0

Init ==
    /\ loop_running = FALSE
    /\ active = "none"
    /\ current = 0
    /\ frames = [t \in Tasks |-> <<>>]
    /\ call = NoCall
    /\ done = NoDone
    /\ last = [op |-> "init", cur |-> 0]
    /\ task_context = "v0"
    /\ mutex = NewLock
    /\ plain_in = FALSE
    /\ ready = {}

\* ---------------------------------------------------------------- code blocks
\* Faulty variant: the awaitable reaches the driver but the worker goes on.
driver_switch_keeps_running(f, aw) ==
    [f EXCEPT !.result = HandAw(aw), !.pc = "loop_test"]

\* "current.driver.switch(awaitable)" as the driver sees it: the switch call
\* of the frame returns the awaitable into "result"; the worker stays
\* suspended in its adapter call.
driver_switch(f, aw) ==
    [f EXCEPT !.result = HandAw(aw), !.pc = "loop_test",
              !.context = [@ EXCEPT !.st = "suspended", !.yields = @ + 1]]

\* Faulty variant: "while True".
loop_test_always(f) == TRUE

\* Faulty variant: "if not context.dead", one pass only.
loop_test_once(f) == f.context.st # "dead" /\ ~f.switch_occurred

\* "while not context.dead"
loop_test(f) == f.context.st # "dead"

\* Faulty variant: the loop body does not await.
loop_enter_spins(f) == [f EXCEPT !.switch_occurred = TRUE]

\* Loop head and body up to the await: "while not context.dead:
\* switch_occurred = True; ... await result".
loop_enter(f) ==
    [f EXCEPT !.switch_occurred = TRUE, !.pc = "await", !.n_await = @ + 1]

\* What the worker's pending adapter call observes on resumption is logged
\* beside the result the awaitable it yielded finished with.
Observed(f, got) ==
    Append(f.context.log, [what |-> f.result.aw.body, res |-> f.result.aw.res, got |-> got])

\* "result = context.switch(value)": the adapter call returns value, and fn
\* adds it to its accumulator.
context_switch(f) ==
    [f EXCEPT !.pc = "in_worker", !.n_into = @ + 1,
              !.context = [@ EXCEPT !.st = "running", !.acc = @ + f.value.v,
                                    !.log = Observed(f, f.value),
                                    !.seen = contextvar_get(f.context),
                                    !.lock = IF @ = "entering" THEN "in" ELSE @]]

\* "result = context.throw(*sys.exc_info())": the adapter call raises the error.
context_throw(f) ==
    [f EXCEPT !.pc = "in_worker", !.n_into = @ + 1,
              !.context = [@ EXCEPT !.st = "running", !.exc = f.value.e,
                                    !.log = Observed(f, f.value),
                                    !.seen = contextvar_get(f.context),
                                    !.lock = IF @ = "entering" THEN "out" ELSE @]]

\* Faulty variant: an error of the await is swallowed, the worker gets None.
resume_swallows_error(f) ==
    IF f.value.tag = "err" THEN context_switch([f EXCEPT !.value = Val(0)])
    ELSE context_switch(f)

\* Faulty variant: context.switch(result) in place of context.switch(value).
resume_passes_handoff(f) ==
    IF f.value.tag = "err" THEN context_throw(f)
    ELSE context_switch([f EXCEPT !.value = Val(f.result.v)])

\* Faulty variant: no else clause, "context.switch(value)" follows the throw.
resume_throw_then_switch(f) ==
    IF f.value.tag = "err" THEN context_switch(context_throw(f)) ELSE context_switch(f)

\* The try/except/else around the await.
resume(f) ==
    IF f.value.tag = "err" THEN context_throw(f) ELSE context_switch(f)

\* "del context.driver"
del_driver(ctx) == [ctx EXCEPT !.driver = "deleted"]

\* Faulty variant: the driver is deleted after the loop, not in a finally.
finally_only_after_loop(f) ==
    IF f.exc # "-" THEN f.context ELSE del_driver(f.context)

\* The finally clause, run on every way out of the try block.
finally(f) == del_driver(f.context)

\* Faulty variant: switch_occurred is not consulted.
await_required_ignores_switch(f) == f.require_await

\* "if _require_await and not switch_occurred"
await_required(f) == f.require_await /\ ~f.switch_occurred

\* Faulty variant: "return value" in place of "return result".
spawn_outcome_returns_value(f) ==
    IF f.exc # "-" THEN Err(f.exc)
    ELSE IF await_required(f) THEN Err("AwaitRequired")
    ELSE Val(f.value.v)

\* Faulty variant: the except clause keeps the error of the await and raises
\* it again once the loop is over.
spawn_outcome_reraises_caught(f) ==
    IF f.exc # "-" THEN Err(f.exc)
    ELSE IF f.value.tag = "err" THEN f.value
    ELSE IF await_required(f) THEN Err("AwaitRequired")
    ELSE Val(f.result.v)

\* How greenlet_spawn completes: an error that left the try block propagates;
\* otherwise the _require_await test, and "return result".
spawn_outcome(f) ==
    IF f.exc # "-" THEN Err(f.exc)
    ELSE IF await_required(f) THEN Err("AwaitRequired")
    ELSE Val(f.result.v)

\* The statement that ends greenlet_spawn.
spawn_by(f) ==
    IF f.exc # "-" THEN "propagate"
    ELSE IF await_required(f) THEN "AwaitRequired"
    ELSE "return"

\* asyncio's loop.run_until_complete(awaitable) on an awaitable that resolves
\* as planned.
run_until_complete(aw) ==
    [after |-> [aw EXCEPT !.st = "done", !.res = aw.plan], out |-> aw.plan]

\* get_event_loop(): the running loop, else the policy's default loop.
get_event_loop == IF loop_running THEN "running" ELSE "default"

is_running(loop) == loop = "running"

\* The branch of an adapter taken when getcurrent() is no _AsyncIoGreenlet.
missing_greenlet(aw) ==
    [after |-> _safe_cancel_awaitable(aw), out |-> Err("MissingGreenlet")]

\* Faulty variant: no loop.is_running() test.
await_fallback_outside_always_runs(aw, loop) == run_until_complete(aw)

await_fallback_outside(aw, loop) ==
    IF is_running(loop) THEN missing_greenlet(aw) ELSE run_until_complete(aw)

Obs(op) ==
    /\ last' = Op(op)
    /\ call' = NoCall
    /\ done' = NoDone

\* ---------------------------------------------------------------- entry points
\* _util_async_run_coroutine_function(fn): refuses when a loop runs, else
\* runs the loop on the coroutine fn(), whose body is the PlainCode of task t.
util_async_run_coroutine_function(t) ==
    /\ PlainCode
    /\ IF is_running(get_event_loop)
       THEN /\ Obs("run_refused")
            /\ UNCHANGED <<env, loop_running, active, current, frames>>
       ELSE /\ loop_running' = TRUE
            /\ active' = t
            /\ Obs("run")
            /\ UNCHANGED <<env, current, frames>>

\* The coroutine of the task returns and run_until_complete with it.
coroutine_return ==
    /\ active # "none"
    /\ Depth = 0
    /\ current = 0
    /\ loop_running' = FALSE
    /\ active' = "none"
    /\ Obs("coroutine_return")
    /\ UNCHANGED <<env, current, frames>>

\* "await greenlet_spawn(fn, arg, _require_await=req)" in the task's
\* coroutine: the frame is created and control enters the worker.
greenlet_spawn(arg, req) ==
    /\ active # "none"
    /\ Depth = 0
    /\ current = 0
    /\ frames' = [frames EXCEPT ![active] = <<NewFrame(arg, req)>>]
    /\ current' = 1
    /\ Obs("switch")
    /\ UNCHANGED <<env, loop_running, active>>

\* The loop of a frame awaits a greenlet_spawn coroutine its worker yielded:
\* the nested frame is created, with getcurrent() the root greenlet, and
\* control enters the nested worker.
greenlet_spawn_nested ==
    /\ DriverRuns
    /\ Top.pc = "await"
    /\ Top.result.aw.body = "spawn"
    /\ Top.result.aw.st = "pending"
    /\ frames' = [frames EXCEPT ![active] =
                     Append([F EXCEPT ![Depth].result.aw.st = "running"],
                            NewFrame(Top.result.aw.arg, Top.result.aw.req))]
    /\ current' = Depth + 1
    /\ Obs("switch")
    /\ UNCHANGED <<env, loop_running, active>>

\* ---------------------------------------------------------------- adapters
RECURSIVE Suspensions(_)
Suspensions(fs) ==
    IF fs = <<>> THEN 0
    ELSE Len(Head(fs).context.log)
         + (IF Head(fs).context.st = "suspended" THEN 1 ELSE 0)
         + Suspensions(Tail(fs))

\* Where the adapters are called: by fn in the running worker, with one of
\* WorkerAwaitables, or by code outside any worker, with a plain awaitable.
AdapterGuard(aw) ==
    \/ /\ WorkerRuns
       /\ aw \in WorkerAwaitables
       /\ Top.context.exc = "-"
       /\ Suspensions(F) < MaxAwaits
       /\ aw.body = "spawn" => Depth < MaxDepth
    \/ /\ PlainCode
       /\ aw.body = "simple"

\* Faulty variant: every handoff lands in the outermost frame.
DriverFrameOutermost == IF Depth > 0 THEN 1 ELSE 0

\* The frame that receives what the running worker hands to
\* "current.driver": the root greenlet continues where it switched away, in
\* the switch call of the innermost frame.
DriverFrame == Depth

InWorker(aw, name) ==
    /\ Top.context.driver = "root"
    /\ frames' = [frames EXCEPT ![active] = [F EXCEPT ![DriverFrame] = driver_switch(@, aw)]]
    /\ current' = 0
    /\ Obs(name)
    /\ UNCHANGED <<env, loop_running, active>>

Outside(name, r) ==
    /\ call' = [fn |-> name, running |-> loop_running, before |-> r.before,
                after |-> r.after, out |-> r.out]
    /\ last' = Op(name)
    /\ done' = NoDone
    /\ UNCHANGED <<env, loop_running, active, current, frames>>

await_only(aw) ==
    /\ AdapterGuard(aw)
    /\ IF ~in_greenlet
       THEN LET r == missing_greenlet(aw)
            IN  Outside("await_only", [before |-> aw, after |-> r.after, out |-> r.out])
       ELSE InWorker(aw, "await_only")

await_fallback(aw) ==
    /\ AdapterGuard(aw)
    /\ IF ~in_greenlet
       THEN LET r == await_fallback_outside(aw, get_event_loop)
            IN  Outside("await_fallback", [before |-> aw, after |-> r.after, out |-> r.out])
       ELSE InWorker(aw, "await_fallback")

\* ---------------------------------------------------------------- fn
\* fn returns its accumulator: the worker is dead and the switch call of the
\* frame returns the value into "result".
fn_return ==
    /\ WorkerRuns
    /\ Top.context.exc = "-"
    /\ frames' = SetTop([Top EXCEPT !.result = HandVal(Top.context.acc),
                                    !.pc = "loop_test",
                                    !.context = [@ EXCEPT !.st = "dead", !.how = "return",
                                                          !.ret = Val(Top.context.acc)]])
    /\ current' = 0
    /\ Obs("finish")
    /\ UNCHANGED <<env, loop_running, active>>

\* fn raises an error of its own: the worker is dead and the switch call of
\* the frame raises it.
fn_raise(e) ==
    /\ WorkerRuns
    /\ Top.context.exc = "-"
    /\ frames' = SetTop([Top EXCEPT !.exc = e, !.pc = "raising",
                                    !.context = [@ EXCEPT !.st = "dead", !.how = "raise",
                                                          !.ret = Err(e)]])
    /\ current' = 0
    /\ Obs("finish")
    /\ UNCHANGED <<env, loop_running, active>>

\* fn handles the error its adapter call raised and goes on.
fn_handle ==
    /\ WorkerRuns
    /\ Top.context.exc # "-"
    /\ frames' = SetTop([Top EXCEPT !.context.exc = "-"])
    /\ Obs("handle")
    /\ UNCHANGED <<env, loop_running, active, current>>

\* fn does not handle the error its adapter call raised.
fn_unwind ==
    /\ WorkerRuns
    /\ Top.context.exc # "-"
    /\ frames' = SetTop([Top EXCEPT !.exc = Top.context.exc, !.pc = "raising",
                                    !.context = [@ EXCEPT !.st = "dead", !.how = "unwind",
                                                          !.exc = "-",
                                                          !.ret = Err(Top.context.exc)]])
    /\ current' = 0
    /\ Obs("finish")
    /\ UNCHANGED <<env, loop_running, active>>

\* ---------------------------------------------------------------- driver loop
\* The loop test succeeds and the frame awaits what the worker yielded. On a
\* pending plain awaitable the task is suspended and the event loop takes the
\* thread.
loop_await ==
    /\ DriverRuns
    /\ Top.pc = "loop_test"
    /\ loop_test(Top)
    /\ frames' = SetTop(loop_enter(Top))
    /\ active' = IF Top.result.aw.body = "simple" THEN "none" ELSE active
    /\ Obs("await")
    /\ UNCHANGED <<env, loop_running, current>>

Suspended(t) ==
    /\ active = "none"
    /\ loop_running
    /\ Len(frames[t]) > 0
    /\ frames[t][Len(frames[t])].pc = "await"
    /\ frames[t][Len(frames[t])].result.aw.body = "simple"
    /\ frames[t][Len(frames[t])].result.aw.st = "pending"

Wake(t, state, o, op) ==
    /\ frames' = [frames EXCEPT ![t][Len(frames[t])] =
                     [@ EXCEPT !.result.aw.st = state, !.result.aw.res = o,
                               !.value = o, !.pc = "resume"]]
    /\ active' = t
    /\ Obs(op)
    /\ UNCHANGED <<env, loop_running, current>>

\* The event loop finishes the awaited operation as planned and steps the task.
await_done(t) ==
    /\ Suspended(t)
    /\ Wake(t, "done", frames[t][Len(frames[t])].result.aw.plan, "await_done")

\* The event loop cancels the task while it waits: the awaited operation is
\* cancelled and CancelledError is raised at the await.
cancel(t) ==
    /\ Suspended(t)
    /\ Wake(t, "cancelled", Err("CancelledError"), "cancel")

\* Code that runs in the task's Context sets the ContextVar: the coroutine
\* a suspended worker yielded, which the frame awaits in the task.
contextvar_set(v) ==
    /\ \E t \in Tasks : Suspended(t)
    /\ v # task_context
    /\ task_context' = v
    /\ Obs("contextvar_set")
    /\ UNCHANGED <<loop_running, active, current, frames, mutex, plain_in, ready>>

\* except BaseException / else: the worker is resumed with what the await gave.
resume_worker ==
    /\ DriverRuns
    /\ Top.pc = "resume"
    /\ frames' = SetTop(resume(Top))
    /\ current' = Depth
    /\ Obs(IF Top.value.tag = "err" THEN "throw" ELSE "switch")
    /\ UNCHANGED <<env, loop_running, active>>

\* The loop test fails, or an error leaves the try block: finally, the
\* _require_await test, return. The coroutine that awaited this one receives
\* the outcome at its own await.
greenlet_spawn_exit ==
    /\ DriverRuns
    /\ \/ Top.pc = "loop_test" /\ ~loop_test(Top)
       \/ Top.pc = "raising"
    /\ LET o == spawn_outcome(Top)
       IN  /\ done' = Exited(Top, Depth, finally(Top), o, spawn_by(Top))
           /\ frames' = [frames EXCEPT ![active] =
                 IF Depth = 1 THEN <<>>
                 ELSE [SubSeq(F, 1, Depth - 1) EXCEPT ![Depth - 1] =
                          [@ EXCEPT !.result.aw.st = "done", !.result.aw.res = o,
                                    !.value = o, !.pc = "resume"]]]
    /\ last' = Op("exit")
    /\ call' = NoCall
    /\ UNCHANGED <<env, loop_running, active, current>>

Next ==
    \/ \E t \in Tasks : util_async_run_coroutine_function(t)
    \/ coroutine_return
    \/ \E a \in Args, r \in BOOLEAN : greenlet_spawn(a, r)
    \/ greenlet_spawn_nested
    \/ \E aw \in SimpleAwaitables \cup SpawnCoroutines : await_only(aw)
    \/ \E aw \in SimpleAwaitables \cup SpawnCoroutines : await_fallback(aw)
    \/ fn_return
    \/ \E e \in FnErrors : fn_raise(e)
    \/ fn_handle
    \/ fn_unwind
    \/ loop_await
    \/ \E t \in Tasks : await_done(t)
    \/ \E t \in Tasks : cancel(t)
    \/ resume_worker
    \/ greenlet_spawn_exit

Spec == Init /\ [][Next]_vars

\* The bridge with code that writes to the task's Context.
NextContext ==
    \/ Next
    \/ \E v \in ContextValues : contextvar_set(v)

SpecContext == Init /\ [][NextContext]_vars

\* ---------------------------------------------------------------- fairness
\* The steps of fn in the running worker.
WorkerStep ==
    /\ WorkerRuns
    /\ \/ \E aw \in WorkerAwaitables : await_only(aw) \/ await_fallback(aw)
       \/ fn_return
       \/ \E e \in FnErrors : fn_raise(e)
       \/ fn_handle
       \/ fn_unwind

\* The steps of the greenlet_spawn coroutine.
DriverStep ==
    \/ greenlet_spawn_nested
    \/ loop_await
    \/ resume_worker
    \/ greenlet_spawn_exit

\* The event loop finishes what a task waits for, one way or the other.
LoopStep == \E t \in Tasks : await_done(t) \/ cancel(t)

\* The thread runs the code that holds it, fn never stops short of an
\* adapter call or its end, and the event loop resolves every awaitable and
\* steps the task that waited for it.
FairSpec ==
    /\ Spec
    /\ WF_vars(WorkerStep)
    /\ WF_vars(DriverStep)
    /\ WF_vars(LoopStep)

\* ---------------------------------------------------------------- AsyncAdaptedLock
\* Two tasks of one event loop; the coroutine of each awaits greenlet_spawn(fn)
\* once, and fn uses the lock as "with lock: ..." around adapter calls.
LockTasks == {"A", "B"}

\* What fn awaits beside the lock.
LockAwaitables == {SimpleAwaitable("coroutine", Val(1))}

\* The coroutine "self.mutex.acquire()", which returns True.
mutex_acquire ==
    [kind |-> "coroutine", body |-> "acquire", plan |-> Val(1), req |-> FALSE, arg |-> 0,
     st |-> "pending", res |-> NoOutcome]

\* "self.mutex", a memoized property: the one asyncio.Lock of the adapter.
lock_mutex == mutex

\* Lock.release(): unlocked, and the first waiter is woken.
mutex_release(m) ==
    [locked |-> FALSE,
     waiters |-> IF m.waiters = <<>> THEN <<>>
                 ELSE [m.waiters EXCEPT ![1].woken = TRUE]]

\* Faulty variant: __exit__ does not release.
exit_release_skipped(m) == m

\* "self.mutex.release()" in __exit__.
exit_release(m) == mutex_release(m)

\* Faulty variant: __enter__ built on await_only.
enter_outside_await_only(aw, loop) == missing_greenlet(aw)

\* "return await_fallback(self.mutex.acquire())" called outside a worker.
enter_outside(aw, loop) == await_fallback_outside(aw, loop)

InitLock ==
    /\ loop_running = FALSE
    /\ active = "none"
    /\ current = 0
    /\ frames = [t \in LockTasks |-> <<>>]
    /\ call = NoCall
    /\ done = NoDone
    /\ last = [op |-> "init", cur |-> 0]
    /\ task_context = "v0"
    /\ mutex = NewLock
    /\ plain_in = FALSE
    /\ ready = {}

\* Synchronous code starts the event loop on the two tasks.
run_loop ==
    /\ PlainCode
    /\ ~loop_running
    /\ ~plain_in
    /\ loop_running' = TRUE
    /\ ready' = LockTasks
    /\ Obs("run")
    /\ UNCHANGED <<active, current, frames, task_context, mutex, plain_in>>

\* Every task has finished: the loop stops.
loop_stop ==
    /\ loop_running
    /\ active = "none"
    /\ ready = {}
    /\ \A t \in LockTasks : frames[t] = <<>>
    /\ loop_running' = FALSE
    /\ Obs("coroutine_return")
    /\ UNCHANGED <<env, active, current, frames>>

\* The event loop starts task t, whose coroutine awaits greenlet_spawn(fn):
\* the frame is created and control enters the worker.
task_start(t) ==
    /\ loop_running
    /\ active = "none"
    /\ t \in ready
    /\ ready' = ready \ {t}
    /\ active' = t
    /\ \E a \in Args : frames' = [frames EXCEPT ![t] = <<NewFrame(a, FALSE)>>]
    /\ current' = 1
    /\ Obs("switch")
    /\ UNCHANGED <<loop_running, task_context, mutex, plain_in>>

\* The coroutine of the task returns.
task_finish ==
    /\ loop_running
    /\ active # "none"
    /\ Depth = 0
    /\ current = 0
    /\ active' = "none"
    /\ Obs("coroutine_return")
    /\ UNCHANGED <<env, loop_running, current, frames>>

\* AsyncAdaptedLock.__enter__. In a worker the acquire coroutine goes to the
\* driver; outside it is run to completion, or refused when a loop runs.
\* With no loop running and the lock taken run_until_complete would not
\* return: no step.
lock_enter ==
    /\ \/ /\ WorkerRuns
          /\ Top.context.exc = "-"
          /\ Top.context.lock = "out"
          /\ Suspensions(F) < MaxAwaits
       \/ /\ PlainCode
          /\ ~plain_in
          /\ loop_running \/ ~lock_mutex.locked
    /\ IF ~in_greenlet
       THEN LET r == enter_outside(mutex_acquire, get_event_loop)
            IN  /\ call' = [fn |-> "lock_enter", running |-> loop_running,
                            before |-> mutex_acquire, after |-> r.after, out |-> r.out]
                /\ mutex' = IF r.out.tag = "val" THEN [lock_mutex EXCEPT !.locked = TRUE]
                            ELSE mutex
                /\ plain_in' = (r.out.tag = "val")
                /\ last' = Op("lock_enter")
                /\ done' = NoDone
                /\ UNCHANGED <<loop_running, active, current, frames, task_context, ready>>
       ELSE /\ Top.context.driver = "root"
            /\ frames' = SetTop(driver_switch([Top EXCEPT !.context.lock = "entering"],
                                              mutex_acquire))
            /\ current' = 0
            /\ Obs("lock_enter")
            /\ UNCHANGED <<env, loop_running, active>>

\* AsyncAdaptedLock.__exit__: "self.mutex.release()".
lock_exit ==
    /\ \/ WorkerRuns /\ Top.context.lock = "in"
       \/ PlainCode /\ plain_in
    /\ mutex' = exit_release(lock_mutex)
    /\ IF in_greenlet
       THEN /\ frames' = SetTop([Top EXCEPT !.context.lock = "out"])
            /\ UNCHANGED plain_in
       ELSE /\ plain_in' = FALSE
            /\ UNCHANGED frames
    /\ Obs("lock_exit")
    /\ UNCHANGED <<loop_running, active, current, task_context, ready>>

\* The frame awaits the acquire coroutine: Lock.acquire() takes a free lock
\* that nobody waits for at once; otherwise the task waits in line.
acquire_run ==
    /\ DriverRuns
    /\ Top.pc = "await"
    /\ Top.result.aw.body = "acquire"
    /\ Top.result.aw.st = "pending"
    /\ LET m == lock_mutex
       IN  IF ~m.locked /\ m.waiters = <<>>
           THEN /\ mutex' = [m EXCEPT !.locked = TRUE]
                /\ frames' = SetTop([Top EXCEPT !.result.aw.st = "done",
                                                !.result.aw.res = Val(1),
                                                !.value = Val(1), !.pc = "resume"])
                /\ UNCHANGED active
           ELSE /\ mutex' = [m EXCEPT !.waiters =
                                Append(@, [task |-> active, woken |-> FALSE])]
                /\ frames' = SetTop([Top EXCEPT !.result.aw.st = "running"])
                /\ active' = "none"
    /\ Obs("acquire")
    /\ UNCHANGED <<loop_running, current, task_context, plain_in, ready>>

\* The event loop steps the task release() woke: acquire() leaves the line,
\* takes the lock and returns True.
acquire_wake(t) ==
    /\ loop_running
    /\ active = "none"
    /\ mutex.waiters # <<>>
    /\ Head(mutex.waiters) = [task |-> t, woken |-> TRUE]
    /\ mutex' = [locked |-> TRUE, waiters |-> Tail(mutex.waiters)]
    /\ frames' = [frames EXCEPT ![t][Len(frames[t])] =
                     [@ EXCEPT !.result.aw.st = "done", !.result.aw.res = Val(1),
                               !.value = Val(1), !.pc = "resume"]]
    /\ active' = t
    /\ Obs("acquire_wake")
    /\ UNCHANGED <<loop_running, current, task_context, plain_in, ready>>

\* fn leaves its with block before it returns.
lock_fn_return ==
    /\ WorkerRuns
    /\ Top.context.lock = "out"
    /\ fn_return

\* fn awaits something else, inside or outside the with block.
lock_fn_await ==
    /\ WorkerRuns
    /\ \E aw \in LockAwaitables : await_only(aw)

NextLock ==
    \/ run_loop
    \/ loop_stop
    \/ \E t \in LockTasks : task_start(t)
    \/ task_finish
    \/ lock_enter
    \/ lock_exit
    \/ acquire_run
    \/ \E t \in LockTasks : acquire_wake(t)
    \/ lock_fn_await
    \/ lock_fn_return
    \/ loop_await
    \/ \E t \in LockTasks : await_done(t)
    \/ resume_worker
    \/ greenlet_spawn_exit

SpecLock == InitLock /\ [][NextLock]_vars

\* The code that holds the thread goes on, and the event loop steps a task
\* whose wait is over; fn makes at most MaxAwaits suspensions.
ThreadStep ==
    \/ task_finish
    \/ WorkerRuns /\ (lock_enter \/ lock_exit)
    \/ acquire_run
    \/ lock_fn_await
    \/ lock_fn_return
    \/ loop_await
    \/ resume_worker
    \/ greenlet_spawn_exit

LockLoopStep ==
    \E t \in LockTasks : task_start(t) \/ acquire_wake(t) \/ await_done(t)

FairSpecLock ==
    /\ SpecLock
    /\ WF_vars(ThreadStep)
    /\ WF_vars(LockLoopStep)

\* ---------------------------------------------------------------- properties
\* Every live frame, as <<task, index>>.
LiveFrames == {p \in Tasks \X (1..MaxDepth) : p[2] <= Len(frames[p[1]])}
FrameAt(p) == frames[p[1]][p[2]]

\* Every worker whose log can be read: those of the live frames and the one
\* of the frame that just exited.
Logs ==
    {FrameAt(p).context.log : p \in LiveFrames}
        \cup (IF done.valid THEN {done.context.log} ELSE {})

\* What the awaitables a worker yielded resolved to, summed over those that
\* resolved to a value.
RECURSIVE SumResolved(_)
SumResolved(log) ==
    IF log = <<>> THEN 0
    ELSE (IF Head(log).res.tag = "val" THEN Head(log).res.v ELSE 0)
         + SumResolved(Tail(log))

LastOf(log) == log[Len(log)]

\* C1: every adapter call of a worker returns exactly the value its own
\* awaitable resolved to (the i-th resume carries the result of the i-th
\* yielded awaitable), and greenlet_spawn of an fn that suspended at least
\* once and returned resolves to fn's return value, which for
\* fn = arg + await_only(a1) + ... is arg plus what the awaitables resolved to.
C1_AwaitReturnsOwnResult ==
    /\ \A log \in Logs : \A k \in 1..Len(log) :
          log[k].res.tag = "val" => log[k].got = log[k].res
    /\ (done.valid /\ Len(done.context.log) >= 1 /\ done.context.how = "return")
          => /\ done.by = "return"
             /\ done.out = done.context.ret
             /\ \E a \in Args : done.out = Val(a + SumResolved(done.context.log))

\* The spec's scenario: fn = 1 + await_only(resolveLater(2)) resolves to 3.
C1_Witness ==
    /\ done.valid
    /\ done.depth = 1
    /\ Len(done.context.log) = 1
    /\ done.context.log[1].res = Val(2)
    /\ done.out = Val(3)

\* C2: for fn that never suspends, greenlet_spawn(fn) (no _require_await)
\* returns exactly the value fn returned and raises exactly what fn raised;
\* the loop body is never entered and nothing is awaited.
C2_NoSuspendPassThrough ==
    (done.valid /\ Len(done.context.log) = 0 /\ ~done.require_await)
        => /\ done.out = done.context.ret
           /\ done.out.tag = "val" => done.out.v \in Args
           /\ done.out.tag = "err" => done.by = "propagate"
           /\ done.n_await = 0
           /\ ~done.switch_occurred

C2_Witness ==
    /\ done.valid
    /\ ~done.require_await
    /\ Len(done.context.log) = 0
    /\ done.out = Err("KeyboardInterrupt")

\* C3 as claimed: with _require_await, greenlet_spawn raises AwaitRequired
\* if and only if fn never called an adapter, whatever fn's outcome.
C3_Original ==
    (done.valid /\ done.require_await)
        => (done.out = Err("AwaitRequired") <=> Len(done.context.log) = 0)

\* C3 amended: with _require_await, what greenlet_spawn raises is
\* AwaitRequired if and only if fn never called an adapter and returned
\* normally (the test after the loop), or fn itself ended with an
\* AwaitRequired error, one that an awaited nested greenlet_spawn raised and
\* fn let through; when fn raises without having suspended, greenlet_spawn
\* raises fn's error.
C3_AwaitRequiredIffNoSuspendAndReturn ==
    (done.valid /\ done.require_await)
        => /\ done.out = Err("AwaitRequired")
                <=> \/ Len(done.context.log) = 0 /\ done.context.how = "return"
                    \/ done.context.ret = Err("AwaitRequired")
           /\ done.by = "AwaitRequired"
                <=> (Len(done.context.log) = 0 /\ done.context.how = "return")
           /\ done.context.ret = Err("AwaitRequired") => done.by = "propagate"
           /\ (Len(done.context.log) = 0 /\ done.context.how = "raise")
                => done.out = done.context.ret

C3_Witness ==
    /\ done.valid
    /\ done.require_await
    /\ done.by = "AwaitRequired"
    /\ done.out = Err("AwaitRequired")

\* C4: when the awaited operation fails with E, the pending adapter call of
\* the worker raises exactly E, and if fn lets it propagate greenlet_spawn
\* raises that same E.
C4_AwaitErrorRoundTrip ==
    /\ \A log \in Logs : \A k \in 1..Len(log) :
          log[k].res.tag = "err" => log[k].got = log[k].res
    /\ \A p \in LiveFrames :
          FrameAt(p).context.exc # "-"
              => /\ Len(FrameAt(p).context.log) > 0
                 /\ LastOf(FrameAt(p).context.log).res = Err(FrameAt(p).context.exc)
    /\ (last.op \in {"switch", "throw"} /\ Len(Top.context.log) > 0
            /\ LastOf(Top.context.log).res.tag = "err")
          => Top.context.exc = LastOf(Top.context.log).res.e
    /\ (done.valid /\ done.context.how = "unwind")
          => /\ LastOf(done.context.log).res.tag = "err"
             /\ done.out = LastOf(done.context.log).res
             /\ done.by = "propagate"

C4_Witness ==
    /\ done.valid
    /\ done.context.how = "unwind"
    /\ done.out = Err("TimeoutError")

\* C5 as claimed: await_only outside a worker raises MissingGreenlet and
\* whatever awaitable it was given is not left pending.
C5_Original ==
    call.fn = "await_only"
        => /\ call.out = Err("MissingGreenlet")
           /\ call.after.st # "pending"

\* C5 amended: await_only outside a worker raises MissingGreenlet without any
\* control transfer; a coroutine it was given is closed first, any other
\* awaitable (a future, a task) is left as it was.
C5_MissingGreenletClosesCoroutine ==
    call.fn = "await_only"
        => /\ call.out = Err("MissingGreenlet")
           /\ current = 0
           /\ last.cur = 0
           /\ iscoroutine(call.before) => call.after = [call.before EXCEPT !.st = "closed"]
           /\ ~iscoroutine(call.before) => call.after = call.before

C5_Witness ==
    /\ call.fn = "await_only"
    /\ iscoroutine(call.before)
    /\ call.before.st = "pending"
    /\ call.after.st = "closed"

ExitConditions == {"CancelledError", "TimeoutError"}

\* C6: a cancellation or timeout of the awaited operation reaches the worker
\* only as an error raised at its suspension point: the step that cancels
\* leaves the worker suspended with the error parked at the driver's await,
\* and a worker sees the error only on being resumed by throw from the
\* driver; if fn lets it propagate greenlet_spawn fails with that same error,
\* for which is_exit_exception is true.
C6_CancellationAtSuspensionPoint ==
    /\ \A p \in LiveFrames :
          LET f == FrameAt(p)
          IN  /\ (f.pc = "resume" /\ f.value.tag = "err")
                    => (f.context.st = "suspended" /\ f.context.exc = "-")
              /\ f.context.exc \in ExitConditions
                    => /\ last.op = "throw"
                       /\ last.cur = 0
                       /\ current = p[2]
                       /\ f.result.aw.res = Err(f.context.exc)
    /\ last.op = "cancel"
          => /\ current = 0
             /\ Top.pc = "resume"
             /\ Top.value = Err("CancelledError")
             /\ Top.context.st = "suspended"
    /\ (done.valid /\ done.context.how = "unwind"
            /\ LastOf(done.context.log).res.e \in ExitConditions)
          => /\ done.out = LastOf(done.context.log).res
             /\ done.out.tag = "err"
             /\ is_exit_exception(done.out.e)

C6_Witness ==
    /\ done.valid
    /\ done.depth = 1
    /\ done.context.how = "unwind"
    /\ done.out = Err("CancelledError")
    /\ is_exit_exception(done.out.e)

\* C7: of each pairing exactly one side runs, the worker or the driver (its
\* frame is inside context.switch/throw exactly while its worker runs, and
\* getcurrent() is that worker exactly then), and control changes sides only
\* at the transfer points: into the worker by context.switch or
\* context.throw, back to the driver by an adapter call or by fn finishing.
C7_SingleActiveRunner ==
    /\ \A p \in LiveFrames :
          LET f == FrameAt(p)
          IN  /\ (f.context.st = "running") <=> (f.pc = "in_worker")
              /\ (f.context.st = "running") <=> (active = p[1] /\ current = p[2])
    /\ current # 0 => (active # "none" /\ current = Depth)
    /\ current # last.cur
          => \/ last.cur = 0 /\ last.op \in {"switch", "throw"}
             \/ current = 0 /\ last.op \in {"await_only", "await_fallback", "finish"}
    /\ last.op \in {"switch", "throw"} => (last.cur = 0 /\ current # 0)
    /\ last.op \in {"await_only", "await_fallback"} /\ last.cur # 0 => current = 0
    /\ last.op = "finish" => (last.cur # 0 /\ current = 0)

C7_Witness ==
    /\ active # "none"
    /\ Depth = 1
    /\ last.op = "await_only"
    /\ last.cur = 1
    /\ current = 0
    /\ Top.context.st = "suspended"
    /\ Top.pc = "loop_test"

\* C8: while a nested greenlet_spawn runs, each outer worker stays suspended
\* on its one pending handoff, the nested coroutine, untouched; the inner
\* worker's adapter calls are answered by the inner loop with the inner
\* awaitable's result; and when the inner greenlet_spawn completes the outer
\* worker is resumed once, with exactly what the inner call completed with.
C8_NestedSpawnsIndependent ==
    /\ \A p \in LiveFrames :
          LET f == FrameAt(p)
          IN  /\ p[2] < Len(frames[p[1]])
                    => /\ f.context.st = "suspended"
                       /\ f.pc = "await"
                       /\ f.result = HandAw([SpawnCoroutine(f.result.aw.arg, f.result.aw.req)
                                                EXCEPT !.st = "running"])
                       /\ f.n_await = Len(f.context.log) + 1
              /\ p[2] > 1
                    => \A k \in 1..Len(f.context.log) :
                          f.context.log[k].got = f.context.log[k].res
              /\ (f.result.aw.body = "spawn" /\ f.result.aw.st = "done")
                    => IF f.pc = "resume"
                       THEN /\ f.value = f.result.aw.res
                            /\ f.context.st = "suspended"
                            /\ f.n_await = Len(f.context.log) + 1
                       ELSE /\ f.n_await = Len(f.context.log)
                            /\ LastOf(f.context.log).res = f.result.aw.res
                            /\ LastOf(f.context.log).got = f.result.aw.res
    /\ (done.valid /\ done.depth > 1)
          => /\ Depth = done.depth - 1
             /\ Top.pc = "resume"
             /\ Top.result.aw.st = "done"
             /\ Top.result.aw.res = done.out
             /\ Top.value = done.out

\* An inner worker suspended, was resumed with 2 and returned 1 + 2; the
\* outer worker, still suspended, is about to be resumed with 3.
C8_Witness ==
    /\ done.valid
    /\ done.depth = 2
    /\ Len(done.context.log) = 1
    /\ done.context.log[1].got = Val(2)
    /\ done.out = Val(3)
    /\ Top.value = Val(3)
    /\ Top.context.st = "suspended"

\* C9: on every way out of greenlet_spawn (return, an error of fn, an error
\* or cancellation of the await that fn let through, AwaitRequired) the
\* worker's driver attribute has been deleted.
C9_DriverReleasedOnExit ==
    done.valid
        => /\ done.context.driver = "deleted"
           /\ done.by \in {"return", "propagate", "AwaitRequired"}

C9_Witness ==
    /\ done.valid
    /\ done.by = "propagate"
    /\ done.out = Err("CancelledError")
    /\ done.context.driver = "deleted"

\* C10 as claimed: await_fallback outside a worker drives the awaitable to
\* completion when no loop runs; when a loop runs it raises MissingGreenlet
\* without running the awaitable, which it has discarded: whatever it was
\* given is not left pending.
C10_Original ==
    call.fn = "await_fallback"
        => IF call.running
           THEN /\ call.out = Err("MissingGreenlet")
                /\ call.after.res = NoOutcome
                /\ call.after.st # "pending"
           ELSE /\ call.out = call.before.plan
                /\ call.after.st = "done"

\* C10 amended: await_fallback outside a worker: with no loop running it
\* drives the awaitable to completion and returns its result or raises its
\* error; with a loop running it does what await_only does there: the
\* awaitable is not run, a coroutine is closed, any other awaitable (a
\* future, a task) is left as it was, and MissingGreenlet is raised.
C10_FallbackOutsideWorker ==
    call.fn = "await_fallback"
        => /\ current = 0
           /\ last.cur = 0
           /\ IF call.running
              THEN /\ call.out = Err("MissingGreenlet")
                   /\ call.after.res = NoOutcome
                   /\ iscoroutine(call.before)
                         => call.after = [call.before EXCEPT !.st = "closed"]
                   /\ ~iscoroutine(call.before) => call.after = call.before
              ELSE /\ call.out = call.before.plan
                   /\ call.after.st = "done"
                   /\ call.after.res = call.before.plan

\* A pending future handed to await_fallback while a loop runs.
C10_Witness ==
    /\ call.fn = "await_fallback"
    /\ call.running
    /\ ~iscoroutine(call.before)
    /\ call.after.st = "pending"
    /\ call.out = Err("MissingGreenlet")

\* ---------------------------------------------------------------- C13
\* The error kinds of the claim, with the bridge's own two.
ErrorKinds ==
    {"ValueError", "TimeoutError", "CancelledError", "KeyboardInterrupt",
     "SystemExit", "GeneratorExit", "MissingGreenlet", "AwaitRequired"}

\* The errors to be seen in a state: what a call or a greenlet_spawn ended
\* with, and what is on its way in a frame or a worker.
ErrorsSeen ==
    {o.e : o \in {o \in {done.out, call.out, done.context.ret} : o.tag = "err"}}
        \cup {FrameAt(p).value.e : p \in {q \in LiveFrames : FrameAt(q).value.tag = "err"}}
        \cup ({FrameAt(p).exc : p \in LiveFrames} \ {"-"})
        \cup ({FrameAt(p).context.exc : p \in LiveFrames} \ {"-"})

\* C13: is_exit_exception(e) is true exactly of a cancellation, a timeout and
\* an error that is no Exception instance (KeyboardInterrupt, SystemExit,
\* GeneratorExit), and false of every other error; every error the bridge
\* carries is of one of these kinds.
C13_ExitExceptionClassification ==
    /\ \A e \in ErrorKinds :
          is_exit_exception(e) <=>
              e \in {"CancelledError", "TimeoutError", "KeyboardInterrupt",
                     "SystemExit", "GeneratorExit"}
    /\ ErrorsSeen \subseteq ErrorKinds
    /\ \A e \in ErrorsSeen :
          ~is_exit_exception(e) <=> e \in {"ValueError", "MissingGreenlet", "AwaitRequired"}

\* fn handled a timeout (an exit condition) and then raised an ordinary error.
C13_Witness ==
    /\ done.valid
    /\ done.out = Err("ValueError")
    /\ ~is_exit_exception(done.out.e)
    /\ Len(done.context.log) = 1
    /\ done.context.log[1].got = Err("TimeoutError")
    /\ is_exit_exception(done.context.log[1].got.e)

\* ---------------------------------------------------------------- C14
\* C14: a worker has at most one handoff in flight: it has yielded exactly
\* one awaitable more than it was resumed for while it is suspended, and
\* none otherwise; a suspended worker has its awaitable in the frame's
\* "result"; only the running worker calls an adapter on the worker branch;
\* the driver resumes a worker only when it is suspended, and a finished
\* worker's frame neither awaits nor resumes.
C14_OneHandoffInFlight ==
    /\ \A p \in LiveFrames :
          LET f == FrameAt(p)
          IN  /\ f.context.yields - Len(f.context.log)
                    = (IF f.context.st = "suspended" THEN 1 ELSE 0)
              /\ f.context.st = "suspended"
                    => f.result.tag = "aw" /\ f.pc \in {"loop_test", "await", "resume"}
              /\ f.pc \in {"await", "resume"} => f.context.st = "suspended"
              /\ f.context.st = "dead" => f.pc \in {"loop_test", "raising"}
    /\ (last.op \in {"await_only", "await_fallback"} /\ call.fn = "-")
          => /\ last.cur = Depth
             /\ Top.context.st = "suspended"
             /\ Top.context.yields = Len(Top.context.log) + 1
    /\ last.op \in {"switch", "throw"}
          => /\ Top.context.st = "running"
             /\ Top.context.yields = Len(Top.context.log)

\* The driver is about to resume a worker for its second suspension.
C14_Witness ==
    /\ DriverRuns
    /\ Top.pc = "resume"
    /\ Top.context.st = "suspended"
    /\ Top.context.yields = 2
    /\ Len(Top.context.log) = 1

\* ---------------------------------------------------------------- C15
\* fn handled an error that an adapter call raised: a later suspension
\* followed it, or it was the last one and fn did not let it propagate.
Caught(ctx) ==
    \E k \in 1..Len(ctx.log) :
        /\ ctx.log[k].got.tag = "err"
        /\ k < Len(ctx.log) \/ ctx.how # "unwind"

\* C15: after fn handles an error thrown into it the worker is running again
\* with its driver in place; every suspension it makes afterwards is awaited
\* and resumed by the same frame; and greenlet_spawn completes with what fn
\* ended with, its return value (arg plus what its awaits gave) or its own
\* error, not with the error it handled.
C15_CaughtErrorDoesNotEndBridge ==
    /\ last.op = "handle"
          => /\ WorkerRuns
             /\ Top.context.exc = "-"
             /\ Top.context.driver = "root"
    /\ (done.valid /\ Caught(done.context))
          => /\ done.out = done.context.ret
             /\ done.n_await = Len(done.context.log)
             /\ done.context.how = "return"
                   => /\ done.by = "return"
                      /\ \E a \in Args : done.out = Val(a + SumResolved(done.context.log))
             /\ done.context.how = "raise"
                   => /\ done.by = "propagate"
                      /\ done.out.e \in FnErrors

\* fn handled a timeout, awaited again, got 2 and returned 1 + 2.
C15_Witness ==
    /\ done.valid
    /\ done.depth = 1
    /\ Len(done.context.log) = 2
    /\ done.context.log[1].got = Err("TimeoutError")
    /\ done.context.log[2].got = Val(2)
    /\ done.out = Val(3)

\* ---------------------------------------------------------------- C16
\* C16: in_greenlet() is true exactly when the running context is a worker:
\* it is false while the driver runs, while the event loop holds the thread
\* for an awaitable a suspended worker yielded, and once the worker has
\* finished; an adapter takes its worker branch only when called by a
\* worker and its other branch only when called by the root greenlet.
C16_RoleMarkerOnlyInWorker ==
    /\ in_greenlet <=> (active # "none" /\ Depth > 0 /\ current = Depth
                            /\ Top.context.st = "running")
    /\ DriverRuns => ~in_greenlet
    /\ PlainCode => ~in_greenlet
    /\ (\E t \in Tasks : Suspended(t)) => ~in_greenlet
    /\ (last.op = "finish" \/ done.valid) => ~in_greenlet
    /\ call.fn # "-" => last.cur = 0
    /\ (last.op \in {"await_only", "await_fallback"} /\ call.fn = "-") => last.cur > 0

\* The event loop runs the awaitable of a suspended worker.
C16_Witness ==
    /\ \E t \in Tasks :
          /\ Suspended(t)
          /\ frames[t][1].context.st = "suspended"
    /\ last.op = "await"
    /\ ~in_greenlet

\* ---------------------------------------------------------------- C18
\* C18: a greenlet_spawn that completed, with a value or with any error,
\* AwaitRequired included, left its worker dead; the driver reference is
\* deleted only then, so no worker is suspended in an adapter call without
\* its driver.
C18_WorkerDeadOnCompletion ==
    /\ done.valid
          => /\ done.context.st = "dead"
             /\ done.context.how \in {"return", "raise", "unwind"}
             /\ done.context.yields = Len(done.context.log)
    /\ \A p \in LiveFrames :
          /\ FrameAt(p).context.driver = "root"
          /\ FrameAt(p).context.st \in {"running", "suspended", "dead"}

\* greenlet_spawn raised AwaitRequired: fn had returned.
C18_Witness ==
    /\ done.valid
    /\ done.out = Err("AwaitRequired")
    /\ done.context.st = "dead"
    /\ done.context.how = "return"

\* ---------------------------------------------------------------- C19
\* C19: the frame awaits each awaitable its worker yielded once, and each
\* await that finished is followed by one transfer into the worker, a switch
\* with its value or a throw with its error; a greenlet_spawn whose worker
\* suspended k times has performed k awaits and k + 1 transfers into it.
C19_OneAwaitOneResumePerYield ==
    /\ \A p \in LiveFrames :
          LET f == FrameAt(p)
              pending == IF f.context.st = "suspended" THEN 1 ELSE 0
          IN  /\ f.n_into = f.context.yields + 1 - pending
              /\ f.n_into = Len(f.context.log) + 1
              /\ f.n_await = IF f.pc = "loop_test" THEN f.context.yields - pending
                             ELSE f.context.yields
    /\ \A log \in Logs : \A k \in 1..Len(log) : log[k].got = log[k].res
    /\ last.op = "throw" => LastOf(Top.context.log).got.tag = "err"
    /\ (last.op = "switch" /\ Len(Top.context.log) > 0)
          => LastOf(Top.context.log).got.tag = "val"
    /\ done.valid
          => /\ done.n_await = done.context.yields
             /\ done.n_into = done.context.yields + 1

\* A worker that suspended twice: two awaits, three transfers into it.
C19_Witness ==
    /\ done.valid
    /\ done.context.yields = 2
    /\ done.n_await = 2
    /\ done.n_into = 3

\* ---------------------------------------------------------------- C17
\* The claim as stated: whenever fn runs, what it has read of the ContextVar
\* is the value the driver's context held when the worker was created.
C17_Original ==
    \A p \in LiveFrames :
        FrameAt(p).context.st = "running"
            => FrameAt(p).context.seen = FrameAt(p).context.snap

\* C17 (amended): the worker runs in the driver's own Context object, handed
\* over by reference at creation: at its start and after every resumption fn
\* reads the value that context holds now, whatever it held at creation.
C17_SharesDriverContext ==
    /\ \A p \in LiveFrames :
          /\ FrameAt(p).context.gr_context = "driver's"
          /\ FrameAt(p).context.snap \in ContextValues
          /\ FrameAt(p).context.st = "running"
                => FrameAt(p).context.seen = task_context
    /\ last.op \in {"switch", "throw"} => Top.context.seen = task_context

\* fn was resumed and reads a value set in the task's context after the
\* worker was created.
C17_Witness ==
    /\ WorkerRuns
    /\ Len(Top.context.log) = 1
    /\ Top.context.snap = "v0"
    /\ Top.context.seen = "v1"
    /\ task_context = "v1"

\* ---------------------------------------------------------------- C20
\* The frame waits for nothing but the awaitable its worker yielded last and
\* gives up the thread only at its await.
WaitsOnYielded ==
    /\ \A p \in LiveFrames :
          LET f == FrameAt(p)
          IN  f.pc = "await"
                 => /\ f.result.tag = "aw"
                    /\ f.result.aw.st \in {"pending", "running"}
                    /\ f.context.st = "suspended"
                    /\ f.n_await = f.context.yields
    /\ \A t \in Tasks :
          (active = "none" /\ Len(frames[t]) > 0) => Suspended(t)
    /\ last.op = "await"
          => \E p \in LiveFrames : p[2] = Len(frames[p[1]]) /\ FrameAt(p).pc = "await"

\* C20: under fairness, with fn suspending at most MaxAwaits times and every
\* awaitable resolving, every greenlet_spawn that was entered completes, at
\* each nesting depth; all along the frame waits only for its worker's
\* latest awaitable and each pass through the loop awaits.
C20_SpawnCompletes ==
    /\ []WaitsOnYielded
    /\ \A d \in 1..MaxDepth :
          (\E t \in Tasks : Len(frames[t]) >= d) ~> (done.valid /\ done.depth = d)

\* An outermost greenlet_spawn whose fn suspended twice has returned.
C20_Witness ==
    /\ done.valid
    /\ done.depth = 1
    /\ done.by = "return"
    /\ done.n_await = 2
    /\ done.context.st = "dead"

\* ---------------------------------------------------------------- C11
\* Task t's fn is inside the with block: its __enter__ has returned and its
\* __exit__ has not been called.
InLock(t) == Len(frames[t]) > 0 /\ frames[t][1].context.lock = "in"

\* Task t's fn has called __enter__, which has not returned.
Entering(t) == Len(frames[t]) > 0 /\ frames[t][1].context.lock = "entering"

Holders == {t \in LockTasks : InLock(t)}

\* Who the lock is locked for: a caller inside its with block, or a worker
\* whose acquire() has finished and whose resumption is due.
Acquired(t) ==
    \/ InLock(t)
    \/ Entering(t) /\ frames[t][1].pc = "resume"

MutualExclusion ==
    /\ Cardinality(Holders) + (IF plain_in THEN 1 ELSE 0) <= 1
    /\ Cardinality({t \in LockTasks : Acquired(t)}) <= 1
    /\ Holders # {} => mutex.locked
    /\ \A a, b \in LockTasks :
          (InLock(a) /\ Entering(b))
              => /\ frames[b][1].context.st = "suspended"
                 /\ frames[b][1].pc \in {"loop_test", "await"}
                 /\ frames[b][1].result.aw.st \in {"pending", "running"}

\* C11: at no time are two callers inside the with block of the same
\* AsyncAdaptedLock; while one is, the __enter__ of any other stays suspended;
\* and, the tasks being stepped fairly and no wait being cancelled, a worker
\* suspended in __enter__ when the holder calls __exit__ gets the lock: its
\* __enter__ returns.
C11_LockMutualExclusionAndHandOver ==
    /\ []MutualExclusion
    /\ \A t \in LockTasks :
          (Entering(t) /\ last.op = "lock_exit") ~> InLock(t)

\* One worker is inside the with block, suspended on an await of its own,
\* and the other waits in line for the lock.
C11_Witness ==
    \E a, b \in LockTasks :
        /\ InLock(a)
        /\ Entering(b)
        /\ mutex.locked
        /\ mutex.waiters = <<[task |-> b, woken |-> FALSE]>>

\* ---------------------------------------------------------------- C12
\* __enter__ called in a worker: acquire() on a free lock finishes within the
\* frame's await, the worker is resumed with True and is inside the block
\* with the lock taken; acquire() makes the task wait only when the lock is
\* taken or promised to a waiter.
EnterInWorker ==
    /\ (last.op = "acquire" /\ active # "none")
          => /\ Top.pc = "resume"
             /\ Top.value = Val(1)
             /\ Top.context.lock = "entering"
             /\ mutex.locked
    /\ (last.op = "acquire" /\ active = "none")
          => mutex.locked \/ Len(mutex.waiters) >= 2
    /\ \A t \in LockTasks :
          InLock(t)
              => /\ mutex.locked
                 /\ \E k \in 1..Len(frames[t][1].context.log) :
                       /\ frames[t][1].context.log[k].what = "acquire"
                       /\ frames[t][1].context.log[k].got = Val(1)

\* __enter__ called outside a worker with no loop running, on a free lock:
\* acquire() is run to completion and the lock is taken.
EnterNoLoop ==
    (call.fn = "lock_enter" /\ ~call.running)
        => /\ call.out = Val(1)
           /\ call.after.st = "done"
           /\ mutex.locked
           /\ plain_in

\* The claim as stated: in each of the three situations __enter__ acquires
\* the lock and returns.
C12_Original ==
    /\ EnterInWorker
    /\ EnterNoLoop
    /\ (call.fn = "lock_enter" /\ call.running)
          => /\ call.out = Val(1)
             /\ mutex.locked
             /\ plain_in

\* C12 (amended): __enter__ on a free lock acquires it and returns True when
\* called in a worker and when called outside a worker with no loop running;
\* called outside a worker while a loop runs it raises MissingGreenlet, the
\* acquire coroutine is closed and the lock is not taken: it is locked only
\* for a caller that acquired it.
C12_EnterAcquiresUnlessLoopRunsOutsideWorker ==
    /\ EnterInWorker
    /\ EnterNoLoop
    /\ (call.fn = "lock_enter" /\ call.running)
          => /\ call.out = Err("MissingGreenlet")
             /\ call.after.st = "closed"
             /\ ~plain_in
             /\ last.cur = 0
    /\ mutex.locked <=> (plain_in \/ \E t \in LockTasks : Acquired(t))

\* The coroutine of a task called __enter__ on the free lock.
C12_Witness ==
    /\ call.fn = "lock_enter"
    /\ call.running
    /\ active # "none"
    /\ call.out = Err("MissingGreenlet")
    /\ ~mutex.locked
====
